---- MODULE Spec2Model ----
(***************************************************************************)
(* A model of autom8's Browser facade (src/src/browser.rs) and of the      *)
(* controllers it delegates to (nav.rs, input.rs, extract.rs,              *)
(* local_storage.rs, assertions.rs, screenshot.rs).  The WebDriver BiDi    *)
(* session is the external collaborator: every command the facade issues   *)
(* is appended to cmds, and the collaborator's reply is chosen by the      *)
(* environment.  SpecScript is a second specification, of the script text  *)
(* the controllers format from a selector and an attribute name.           *)
(***************************************************************************)
EXTENDS Integers, Sequences, FiniteSets, TLC

\* ------------------------------------------------------------------ bounds

\* Longest context tree the collaborator returns.
MaxTree == 2
\* Explicit timeouts are the multiples k * TimeoutGrain, k in 0..MaxTimeoutK (ms).
TimeoutGrain == 150
MaxTimeoutK == 3
\* Duration (ms) of one slow evaluation round-trip; a call's round-trips are
\* either all instantaneous or all this long.
RttMs == 50
\* Longest selector or attribute name handed to a script builder (characters).
MaxTextLen == 2

\* ------------------------------------------------------- program constants

BACK_DELTA == -1
FORWARD_DELTA == 1
DefaultPageLoadTimeoutMs == 10000
PageLoadPollMs == 200
DefaultClickTimeoutMs == 5000
ClickPollMs == 100

\* ------------------------------------------------------------------ values

\* Option<String>::None of Browser::browsing_context, and the context
\* identifiers the remote browser hands out.
None == 0
Contexts == {1, 2}

\* Option<u64>::None of the timeout_ms arguments.
NoTimeout == -1
Timeouts == {k * TimeoutGrain : k \in 0..MaxTimeoutK}
TimeoutArgs == Timeouts \cup {NoTimeout}

Selectors == {"a#next", "h1"}
Attributes == {"href"}
Urls == {"https://example.com"}
Keys == {"k", "j"}
Values == {"", "v"}

Range(s) == {s[i] : i \in 1..Len(s)}

\* Context trees: sequences of distinct contexts, possibly empty.
Trees == {t \in UNION {[1..n -> Contexts] : n \in 0..MaxTree} :
            \A i, j \in 1..Len(t) : i # j => t[i] # t[j]}

\* Strings a script may yield.
ScriptStrings == {"complete", "interactive", "loading", "", "x"}

\* Replies of the collaborator to evaluate / call_function: a transport
\* failure, or an EvaluateResult (success with a RemoteValue, exception, empty).
TransportErr == [tag |-> "TransportErr", ty |-> "-", val |-> "-"]
CmdOk == [tag |-> "Ok", ty |-> "-", val |-> "-"]
ExceptionResult == [tag |-> "Exception", ty |-> "-", val |-> "details"]
EmptyResult == [tag |-> "Empty", ty |-> "-", val |-> "-"]
Success(ty, val) == [tag |-> "Success", ty |-> ty, val |-> val]
SuccessValues ==
    {Success("string", s) : s \in ScriptStrings}
    \cup {Success("boolean", b) : b \in {"true", "false"}}
    \cup {Success("null", "-"), Success("undefined", "-"), Success("number", "1")}
EvalReplies == {TransportErr, ExceptionResult, EmptyResult} \cup SuccessValues
NoReply == [tag |-> "None", ty |-> "-", val |-> "-"]

\* Commands sent to the collaborator.
Cmd(verb, ctx, script, sel, delta, readiness, args) ==
    [verb |-> verb, context |-> ctx, script |-> script, sel |-> sel,
     delta |-> delta, readiness |-> readiness, args |-> args]
StartCmd == Cmd("start_session", None, "-", "-", 0, "-", <<>>)
CloseCmd == Cmd("close_session", None, "-", "-", 0, "-", <<>>)
GetTreeCmd == Cmd("get_context_tree", None, "-", "-", 0, "-", <<>>)
EvalCmd(ctx, script, sel, args) == Cmd("evaluate", ctx, script, sel, 0, "-", args)
CallCmd(ctx, decl, args) == Cmd("call_function", ctx, decl, "-", 0, "-", args)

\* Selectors and attribute names as the script builders see them: sequences
\* of characters, each an ordinary character, a double quote or a backslash.
DQ == "\""
BS == "\\"
Chars == {"a", DQ, BS}
Texts == UNION {[1..n -> Chars] : n \in 0..MaxTextLen}

\* No script built yet for the selector and attribute at hand.
Unbuilt(sel, attribute) ==
    [builder |-> "-", selector |-> sel, attribute |-> attribute,
     text |-> <<>>, literals |-> <<>>]

\* Results returned to the caller: Result<_, BrowserError>, or a panic.
NoResult == [kind |-> "None", err |-> "-", msg |-> "-", sel |-> "-", ms |-> 0, val |-> <<>>]
Ok(val) == [kind |-> "Ok", err |-> "-", msg |-> "-", sel |-> "-", ms |-> 0, val |-> val]
Err(err, msg) == [kind |-> "Err", err |-> err, msg |-> msg, sel |-> "-", ms |-> 0, val |-> <<>>]
ErrSel(err, msg, sel) == [Err(err, msg) EXCEPT !.sel = sel]
ErrMs(err, msg, sel, ms) == [Err(err, msg) EXCEPT !.sel = sel, !.ms = ms]
Panic(msg) == [kind |-> "Panic", err |-> "-", msg |-> msg, sel |-> "-", ms |-> 0, val |-> <<>>]
\* Returned values: (), a String, a bool ("true" / "false"), an Option<String>.
Unit == <<"()">>
StrVal(s) == <<"String", s>>
BoolVal(b) == <<"bool", b>>
SomeVal(s) == <<"Some", s>>
NoneVal == <<"None">>

\* ------------------------------------------------------------------- state

VARIABLES
    browsing_context,   \* Browser::browsing_context
    session,            \* transport-level state of Browser::webdriverbidi_session
    tabs,               \* the remote browser's context tree
    pc,                 \* the caller's position: "idle" between calls, inside a
                        \* polling loop ("wait_for_page_load",
                        \* "wait_and_click_element"), "returned" when a call
                        \* has handed back its result, or "panicked"
    op,                 \* the public operation called
    cmds,               \* the commands that call has issued, in order
    reply,              \* the collaborator's reply to the last command
    result,             \* what the call returned
    timeout,            \* the running loop's timeout (ms)
    elapsed,            \* start_time.elapsed() of the running loop (ms)
    rtt,                \* duration of this call's evaluation round-trips (ms)
    sleeps,             \* inter-poll sleeps the running loop has completed
    selector,           \* selector argument of the running call
    observed,           \* a poll of this call saw its predicate true
    failures,           \* a poll of this call failed or was ambiguous
    navigating,         \* the click of the running click_and_wait started a
                        \* navigation that has not yet replaced the document
                        \* the click was made in
    script              \* the script source a builder formatted from a
                        \* selector and an attribute name, as characters

vars == <<browsing_context, session, tabs, pc, op, cmds, reply, result,
          timeout, elapsed, rtt, sleeps, selector, observed, failures,
          navigating, script>>

callvars == <<browsing_context, session, tabs, pc, op, cmds, reply, result, navigating>>

loopvars == <<timeout, elapsed, rtt, sleeps, selector, observed, failures>>

\* Browser::new / Browser::new_with_capabilities.
Constructed ==
    /\ browsing_context = None
    /\ session = "not_started"
    /\ tabs = <<>>
    /\ pc = "idle"
    /\ op = "-"
    /\ cmds = <<>>
    /\ reply = NoReply
    /\ result = NoResult
    /\ timeout = 0
    /\ elapsed = 0
    /\ rtt = 0
    /\ sleeps = 0
    /\ selector = "-"
    /\ observed = FALSE
    /\ failures = FALSE
    /\ navigating = FALSE

Init ==
    /\ Constructed
    /\ script = Unbuilt(<<>>, <<>>)

\* ------------------------------------------------------------ collaborator

\* The collaborator can carry out a command naming context ctx only on a
\* started session whose tree holds ctx; any command may also fail.
Live(ctx) == session = "started" /\ ctx \in Range(tabs)
CmdReplies(ctx) == IF Live(ctx) THEN {CmdOk, TransportErr} ELSE {TransportErr}
\* Only a started session can be closed.
CloseReplies == IF session = "started" THEN {CmdOk, TransportErr} ELSE {TransportErr}
ScriptReplies(ctx) == IF Live(ctx) THEN EvalReplies ELSE {TransportErr}
ScreenshotReplies(ctx) ==
    IF Live(ctx) THEN {[tag |-> "Ok", ty |-> "data", val |-> "iVBORw0KGgo="], TransportErr}
    ELSE {TransportErr}

\* A call that returns at once: its commands, the last reply and the result.
Return(name, issued, lastReply, res) ==
    /\ op' = name
    /\ cmds' = issued
    /\ reply' = lastReply
    /\ result' = res
    /\ pc' = "returned"
    /\ timeout' = 0 /\ elapsed' = 0 /\ rtt' = 0 /\ sleeps' = 0
    /\ selector' = "-" /\ observed' = FALSE /\ failures' = FALSE
    /\ navigating' = FALSE
    /\ UNCHANGED script

\* ------------------------------------------------------- session lifecycle

\* get_context without the None test.
get_context_unchecked ==
    [ok |-> TRUE, ctx |-> browsing_context, error |-> NoResult]

\* Browser::get_context
get_context ==
    IF browsing_context = None
    THEN [ok |-> FALSE, ctx |-> None,
          error |-> Err("Navigation", "No browsing context available")]
    ELSE [ok |-> TRUE, ctx |-> browsing_context, error |-> NoResult]

\* open adopting the last context of the tree.
adopted_context_last(t) == t[Len(t)]

\* Browser::open: the context adopted from the tree, contexts[0]
adopted_context(t) == t[1]

\* open closing the session it started when the tree fetch fails.
open_rolling_back ==
    /\ pc = "idle"
    /\ \/ \* session.start() fails
          /\ Return("open", <<StartCmd>>, TransportErr,
                    Err("SessionCreation", "Starting the WebDriverBiDi session failed"))
          /\ UNCHANGED <<browsing_context, session, tabs>>
       \/ \* session.start() succeeds, browsing_context_get_tree fails, session closed again
          /\ session' = "closed"
          /\ \E t \in Trees : tabs' = t
          /\ Return("open", <<StartCmd, GetTreeCmd, CloseCmd>>, TransportErr,
                    Err("SessionCreation", "The browsingContext.getTree command failed"))
          /\ UNCHANGED browsing_context
       \/ \* both succeed: contexts[0] of an empty tree panics
          /\ session' = "started"
          /\ \E t \in Trees :
                /\ tabs' = t
                /\ IF t = <<>>
                   THEN /\ op' = "open"
                        /\ cmds' = <<StartCmd, GetTreeCmd>>
                        /\ reply' = CmdOk
                        /\ result' = Panic("index out of bounds")
                        /\ pc' = "panicked"
                        /\ UNCHANGED browsing_context
                        /\ UNCHANGED <<loopvars, navigating, script>>
                   ELSE /\ browsing_context' = adopted_context(t)
                        /\ Return("open", <<StartCmd, GetTreeCmd>>, CmdOk, Ok(Unit))

\* Browser::open
open ==
    /\ pc = "idle"
    /\ \/ \* session.start() fails
          /\ Return("open", <<StartCmd>>, TransportErr,
                    Err("SessionCreation", "Starting the WebDriverBiDi session failed"))
          /\ UNCHANGED <<browsing_context, session, tabs>>
       \/ \* session.start() succeeds, browsing_context_get_tree fails
          /\ session' = "started"
          /\ \E t \in Trees : tabs' = t
          /\ Return("open", <<StartCmd, GetTreeCmd>>, TransportErr,
                    Err("SessionCreation", "The browsingContext.getTree command failed"))
          /\ UNCHANGED browsing_context
       \/ \* both succeed: contexts[0] of an empty tree panics
          /\ session' = "started"
          /\ \E t \in Trees :
                /\ tabs' = t
                /\ IF t = <<>>
                   THEN /\ op' = "open"
                        /\ cmds' = <<StartCmd, GetTreeCmd>>
                        /\ reply' = CmdOk
                        /\ result' = Panic("index out of bounds")
                        /\ pc' = "panicked"
                        /\ UNCHANGED browsing_context
                        /\ UNCHANGED <<loopvars, navigating, script>>
                   ELSE /\ browsing_context' = adopted_context(t)
                        /\ Return("open", <<StartCmd, GetTreeCmd>>, CmdOk, Ok(Unit))

\* close refusing to run without a context.
close_needs_context ==
    /\ pc = "idle"
    /\ IF ~get_context.ok
       THEN /\ Return("close", <<>>, NoReply, get_context.error)
            /\ UNCHANGED session
       ELSE \E r \in CloseReplies :
            IF r = TransportErr
            THEN /\ Return("close", <<CloseCmd>>, r,
                           Err("SessionClosing", "Closing the WebDriver BiDi session failed"))
                 /\ UNCHANGED session
            ELSE /\ session' = "closed"
                 /\ Return("close", <<CloseCmd>>, r, Ok(Unit))
    /\ UNCHANGED <<browsing_context, tabs>>

\* close dropping the cached context once the session is closed.
close_clears_context ==
    /\ pc = "idle"
    /\ \E r \in CloseReplies :
        IF r = TransportErr
        THEN /\ Return("close", <<CloseCmd>>, r,
                       Err("SessionClosing", "Closing the WebDriver BiDi session failed"))
             /\ UNCHANGED <<session, browsing_context>>
        ELSE /\ session' = "closed"
             /\ browsing_context' = None
             /\ Return("close", <<CloseCmd>>, r, Ok(Unit))
    /\ UNCHANGED tabs

\* Browser::close
close ==
    /\ pc = "idle"
    /\ \E r \in CloseReplies :
        IF r = TransportErr
        THEN /\ Return("close", <<CloseCmd>>, r,
                       Err("SessionClosing", "Closing the WebDriver BiDi session failed"))
             /\ UNCHANGED session
        ELSE /\ session' = "closed"
             /\ Return("close", <<CloseCmd>>, r, Ok(Unit))
    /\ UNCHANGED <<browsing_context, tabs>>

\* The caller has its result (`browser.open().await?` in the examples) and
\* goes on to its next call.
caller_continues ==
    /\ pc = "returned"
    /\ pc' = "idle"
    /\ op' = "-"
    /\ cmds' = <<>>
    /\ reply' = NoReply
    /\ result' = NoResult
    /\ timeout' = 0 /\ elapsed' = 0 /\ rtt' = 0 /\ sleeps' = 0
    /\ selector' = "-" /\ observed' = FALSE /\ failures' = FALSE
    /\ navigating' = FALSE
    /\ UNCHANGED <<browsing_context, session, tabs, script>>

\* Every public method other than open and close: get_context()?, then the
\* controller; controller maps each reply the collaborator can give to the
\* controller's single command to what the controller issues and returns.
Facade(name, controller) ==
    /\ pc = "idle"
    /\ IF ~get_context.ok
       THEN Return(name, <<>>, NoReply, get_context.error)
       ELSE \E r \in DOMAIN controller :
                Return(name, controller[r].cmds, r, controller[r].result)
    /\ UNCHANGED <<browsing_context, session, tabs>>

\* let ctx = self.get_context()?;
ctx == get_context.ctx

\* -------------------------------------------------------------- navigation

\* traverse_history issuing its command a second time.
traverse_history_retrying(context, delta, r) ==
    [cmds |-> <<Cmd("traverse_history", context, "-", "-", delta, "-", <<>>),
                Cmd("traverse_history", context, "-", "-", delta, "-", <<>>)>>,
     result |-> IF r = TransportErr
                THEN Err("Navigation", "Navigating the history failed")
                ELSE Ok(Unit)]

\* nav::traverse_history
traverse_history(context, delta, r) ==
    [cmds |-> <<Cmd("traverse_history", context, "-", "-", delta, "-", <<>>)>>,
     result |-> IF r = TransportErr
                THEN Err("Navigation", "Navigating the history failed")
                ELSE Ok(Unit)]

\* nav::load
nav_load(context, url, r) ==
    [cmds |-> <<Cmd("navigate", context, "-", "-", 0, "complete", <<url>>)>>,
     result |-> IF r = TransportErr THEN Err("Navigation", "navigate failed") ELSE Ok(Unit)]

\* go_back traversing the history forwards.
nav_go_back_forwards(context, r) == traverse_history(context, FORWARD_DELTA, r)

\* nav::go_back
nav_go_back(context, r) == traverse_history(context, BACK_DELTA, r)

\* nav::go_forward
nav_go_forward(context, r) == traverse_history(context, FORWARD_DELTA, r)

\* nav::reload
nav_reload(context, r) ==
    [cmds |-> <<Cmd("reload", context, "-", "-", 0, "complete", <<>>)>>,
     result |-> IF r = TransportErr THEN Err("Navigation", "reload failed") ELSE Ok(Unit)]

\* Browser::load
load ==
    \E url \in Urls :
        Facade("load", [r \in CmdReplies(ctx) |-> nav_load(ctx, url, r)])

\* Browser::go_back
go_back == Facade("go_back", [r \in CmdReplies(ctx) |-> nav_go_back(ctx, r)])

\* Browser::go_forward
go_forward == Facade("go_forward", [r \in CmdReplies(ctx) |-> nav_go_forward(ctx, r)])

\* Browser::reload
reload == Facade("reload", [r \in CmdReplies(ctx) |-> nav_reload(ctx, r)])

\* -------------------------------------------------------------- screenshot

\* take_screenshot reporting a failed capture as a Navigation error.
take_screenshot_navigation_error(context, r) ==
    [cmds |-> <<Cmd("capture_screenshot", context, "-", "-", 0, "-", <<"document", "png">>)>>,
     result |-> IF r = TransportErr
                THEN Err("Navigation", "Taking the screenshot failed")
                ELSE Ok(StrVal(r.val))]

\* screenshot::take_screenshot
screenshot_take_screenshot(context, r) ==
    [cmds |-> <<Cmd("capture_screenshot", context, "-", "-", 0, "-", <<"document", "png">>)>>,
     result |-> IF r = TransportErr
                THEN Err("Screenshot", "Taking the screenshot failed")
                ELSE Ok(StrVal(r.val))]

\* Browser::take_screenshot
take_screenshot ==
    Facade("take_screenshot",
           [r \in ScreenshotReplies(ctx) |-> screenshot_take_screenshot(ctx, r)])

\* ----------------------------------------------------------- local storage

\* local_storage::local_value: the string protocol value of str, written as
\* its type followed by its text.
local_value(str) == <<"string", str>>

\* set_local_storage writing the key into the function's text.
set_local_storage_interpolating(context, key, value, r) ==
    [cmds |-> <<CallCmd(context, key, local_value(value))>>,
     result |-> IF r = TransportErr
                THEN Err("LocalStorage", "Setting the local storage value failed")
                ELSE Ok(Unit)]

\* local_storage::set_local_storage
set_local_storage(context, key, value, r) ==
    [cmds |-> <<CallCmd(context, "(key, value) => localStorage.setItem(key, value)",
                        local_value(key) \o local_value(value))>>,
     result |-> IF r = TransportErr
                THEN Err("LocalStorage", "Setting the local storage value failed")
                ELSE Ok(Unit)]

\* get_local_storage taking the empty string for a missing key.
get_local_storage_empty_is_none(context, key, r) ==
    [cmds |-> <<CallCmd(context, "(key) => localStorage.getItem(key)", local_value(key))>>,
     result |-> IF r = TransportErr
                THEN Err("LocalStorage", "Getting the local storage value failed")
                ELSE IF r.tag = "Success" /\ r.ty = "string" /\ r.val # ""
                THEN Ok(SomeVal(r.val))
                ELSE Ok(NoneVal)]

\* local_storage::get_local_storage
get_local_storage(context, key, r) ==
    [cmds |-> <<CallCmd(context, "(key) => localStorage.getItem(key)", local_value(key))>>,
     result |-> IF r = TransportErr
                THEN Err("LocalStorage", "Getting the local storage value failed")
                ELSE IF r.tag = "Success" /\ r.ty = "string"
                THEN Ok(SomeVal(r.val))
                ELSE Ok(NoneVal)]

\* Browser::set_local_storage_value
set_local_storage_value ==
    \E key \in Keys, value \in Values :
        Facade("set_local_storage_value",
               [r \in ScriptReplies(ctx) |-> set_local_storage(ctx, key, value, r)])

\* Browser::get_local_storage_value
get_local_storage_value ==
    \E key \in Keys :
        Facade("get_local_storage_value",
               [r \in ScriptReplies(ctx) |-> get_local_storage(ctx, key, r)])

\* -------------------------------------------------------------- assertions

\* assert_element_present failing on a value that is no boolean.
assert_element_present_strict(context, sel, r) ==
    [cmds |-> <<EvalCmd(context, "document.querySelector(\"{}\") !== null", sel, <<>>)>>,
     result |->
        CASE r = TransportErr -> Err("Assertion", "Script evaluation failed")
          [] r.tag = "Success" ->
                IF r.ty = "boolean" THEN Ok(BoolVal(r.val))
                ELSE Err("Assertion", "Unexpected result type")
          [] r.tag = "Exception" -> Err("Assertion", "Script exception")
          [] r.tag = "Empty" -> Err("Assertion", "Empty result from script evaluation")]

\* assertions::assert_element_present
assertions_assert_element_present(context, sel, r) ==
    [cmds |-> <<EvalCmd(context, "document.querySelector(\"{}\") !== null", sel, <<>>)>>,
     result |->
        CASE r = TransportErr -> Err("Assertion", "Script evaluation failed")
          [] r.tag = "Success" ->
                IF r.ty = "boolean" THEN Ok(BoolVal(r.val)) ELSE Ok(BoolVal("false"))
          [] r.tag = "Exception" -> Err("Assertion", "Script exception")
          [] r.tag = "Empty" -> Err("Assertion", "Empty result from script evaluation")]

\* Browser::assert_element_present
assert_element_present ==
    \E sel \in Selectors :
        Facade("assert_element_present",
               [r \in ScriptReplies(ctx) |-> assertions_assert_element_present(ctx, sel, r)])

\* ------------------------------------------------------------- interaction

\* click_element taking every boolean for a click that happened.
click_element_any_boolean(context, sel, r) ==
    [cmds |-> <<EvalCmd(context, "click", sel, <<>>)>>,
     result |->
        CASE r = TransportErr -> Err("Action", "Script evaluation failed")
          [] r.tag = "Success" ->
                IF r.ty = "boolean"
                THEN Ok(Unit)
                ELSE Err("Action", "Unexpected result type from click operation")
          [] r.tag = "Exception" -> Err("Action", "Script exception during click")
          [] r.tag = "Empty" -> Err("Action", "Empty result from click script evaluation")]

\* input::click_element
input_click_element(context, sel, r) ==
    [cmds |-> <<EvalCmd(context, "click", sel, <<>>)>>,
     result |->
        CASE r = TransportErr -> Err("Action", "Script evaluation failed")
          [] r.tag = "Success" ->
                IF r.ty = "boolean"
                THEN IF r.val = "true"
                     THEN Ok(Unit)
                     ELSE ErrSel("Action", "Element not found with selector", sel)
                ELSE Err("Action", "Unexpected result type from click operation")
          [] r.tag = "Exception" -> Err("Action", "Script exception during click")
          [] r.tag = "Empty" -> Err("Action", "Empty result from click script evaluation")]

\* Browser::click_element
click_element ==
    \E sel \in Selectors :
        Facade("click_element",
               [r \in ScriptReplies(ctx) |-> input_click_element(ctx, sel, r)])

\* -------------------------------------------------------------- extraction

\* The extraction taking an undefined, as a null, for a missing element.
extract_inner_undefined_not_found(what, context, sel, r) ==
    [cmds |-> <<EvalCmd(context, what, sel, <<>>)>>,
     result |->
        CASE r = TransportErr -> Err("Element", "Script evaluation failed")
          [] r.tag = "Success" ->
                CASE r.ty = "string" -> Ok(StrVal(r.val))
                  [] r.ty \in {"null", "undefined"} ->
                        ErrSel("Element", "Element not found with selector", sel)
                  [] OTHER -> Err("Element", "Unexpected result type from extraction")
          [] r.tag = "Exception" -> Err("Element", "Script exception during extraction")
          [] r.tag = "Empty" -> Err("Element", "Empty result from extraction script")]

\* extract::extract_inner_html and extract::extract_inner_text (what is
\* "innerHTML" or "innerText").
extract_inner(what, context, sel, r) ==
    [cmds |-> <<EvalCmd(context, what, sel, <<>>)>>,
     result |->
        CASE r = TransportErr -> Err("Element", "Script evaluation failed")
          [] r.tag = "Success" ->
                CASE r.ty = "string" -> Ok(StrVal(r.val))
                  [] r.ty = "null" -> ErrSel("Element", "Element not found with selector", sel)
                  [] OTHER -> Err("Element", "Unexpected result type from extraction")
          [] r.tag = "Exception" -> Err("Element", "Script exception during extraction")
          [] r.tag = "Empty" -> Err("Element", "Empty result from extraction script")]

\* extract::extract_inner_html
extract_extract_inner_html(context, sel, r) == extract_inner("innerHTML", context, sel, r)

\* extract::extract_inner_text
extract_extract_inner_text(context, sel, r) == extract_inner("innerText", context, sel, r)

\* extract_attribute taking every value that is no string for a missing
\* attribute.
extract_attribute_coercing(context, sel, attribute, r) ==
    [cmds |-> <<EvalCmd(context, "getAttribute", sel, <<attribute>>)>>,
     result |->
        CASE r = TransportErr -> Err("Element", "Script evaluation failed")
          [] r.tag = "Success" ->
                CASE r.ty = "string" -> Ok(SomeVal(r.val))
                  [] r.ty = "undefined" ->
                        ErrSel("Element", "Element not found with selector", sel)
                  [] OTHER -> Ok(NoneVal)
          [] r.tag = "Exception" -> Err("Element", "Script exception during attribute extraction")
          [] r.tag = "Empty" -> Err("Element", "Empty result from attribute extraction script")]

\* extract_attribute taking a null for a missing element.
extract_attribute_null_not_found(context, sel, attribute, r) ==
    [cmds |-> <<EvalCmd(context, "getAttribute", sel, <<attribute>>)>>,
     result |->
        CASE r = TransportErr -> Err("Element", "Script evaluation failed")
          [] r.tag = "Success" ->
                CASE r.ty = "string" -> Ok(SomeVal(r.val))
                  [] r.ty \in {"null", "undefined"} ->
                        ErrSel("Element", "Element not found with selector", sel)
                  [] OTHER -> Err("Element", "Unexpected result type from attribute extraction")
          [] r.tag = "Exception" -> Err("Element", "Script exception during attribute extraction")
          [] r.tag = "Empty" -> Err("Element", "Empty result from attribute extraction script")]

\* extract::extract_attribute
extract_extract_attribute(context, sel, attribute, r) ==
    [cmds |-> <<EvalCmd(context, "getAttribute", sel, <<attribute>>)>>,
     result |->
        CASE r = TransportErr -> Err("Element", "Script evaluation failed")
          [] r.tag = "Success" ->
                CASE r.ty = "string" -> Ok(SomeVal(r.val))
                  [] r.ty = "null" -> Ok(NoneVal)
                  [] r.ty = "undefined" ->
                        ErrSel("Element", "Element not found with selector", sel)
                  [] OTHER -> Err("Element", "Unexpected result type from attribute extraction")
          [] r.tag = "Exception" -> Err("Element", "Script exception during attribute extraction")
          [] r.tag = "Empty" -> Err("Element", "Empty result from attribute extraction script")]

\* Browser::extract_inner_html (the facade method the examples call; as every
\* other public method it resolves the context, then delegates).
extract_inner_html ==
    \E sel \in Selectors :
        Facade("extract_inner_html",
               [r \in ScriptReplies(ctx) |-> extract_extract_inner_html(ctx, sel, r)])

\* Browser::extract_inner_text
extract_inner_text ==
    \E sel \in Selectors :
        Facade("extract_inner_text",
               [r \in ScriptReplies(ctx) |-> extract_extract_inner_text(ctx, sel, r)])

\* Browser::extract_attribute
extract_attribute ==
    \E sel \in Selectors, attribute \in Attributes :
        Facade("extract_attribute",
               [r \in ScriptReplies(ctx) |-> extract_extract_attribute(ctx, sel, attribute, r)])

\* ------------------------------------------------------------ polling loops

\* A call enters a polling loop: Instant::now() is taken, nothing is issued yet.
EnterLoop(name, loop, issued, lastReply, timeout_ms, sel) ==
    /\ op' = name
    /\ cmds' = issued
    /\ reply' = lastReply
    /\ result' = NoResult
    /\ pc' = loop
    /\ timeout' = timeout_ms
    /\ elapsed' = 0
    /\ \E d \in {0, RttMs} : rtt' = d
    /\ sleeps' = 0
    /\ selector' = sel
    /\ observed' = FALSE
    /\ failures' = FALSE
    /\ UNCHANGED script

\* The loop handing res back while its polling goes on in the background.
LeaveLoop_detached(res) ==
    /\ result' = res
    /\ pc' = pc

\* A polling loop returns res.
LeaveLoop(res) ==
    /\ result' = res
    /\ pc' = "returned"

\* nav::wait_for_page_load: timeout_ms.unwrap_or(10000)
page_load_timeout(timeout_ms) ==
    IF timeout_ms = NoTimeout THEN DefaultPageLoadTimeoutMs ELSE timeout_ms

\* The loop condition with the deadline itself still inside the loop.
page_load_pending_inclusive == elapsed <= timeout

\* nav::wait_for_page_load: the loop condition start_time.elapsed() < timeout
page_load_pending == elapsed < timeout

\* The match taking "interactive" for a loaded page.
page_load_match_interactive(r) ==
    IF r.tag = "Success" /\ r.ty = "string" /\ r.val \in {"complete", "interactive"}
    THEN [returns |-> TRUE, result |-> Ok(Unit)]
    ELSE [returns |-> FALSE, result |-> NoResult]

\* The match propagating a failed evaluation with `?`.
page_load_match_propagates(r) ==
    IF r = TransportErr
    THEN [returns |-> TRUE, result |-> Err("Navigation", "Script evaluation failed")]
    ELSE IF r.tag = "Success" /\ r.ty = "string" /\ r.val = "complete"
    THEN [returns |-> TRUE, result |-> Ok(Unit)]
    ELSE [returns |-> FALSE, result |-> NoResult]

\* nav::wait_for_page_load: the match on the evaluation's reply. It returns
\* Ok(()) from the function on the string "complete" and falls through to the
\* sleep on everything else.
page_load_match(r) ==
    IF r.tag = "Success" /\ r.ty = "string" /\ r.val = "complete"
    THEN [returns |-> TRUE, result |-> Ok(Unit)]
    ELSE [returns |-> FALSE, result |-> NoResult]

ReadyStateCmd(context) == EvalCmd(context, "document.readyState", "-", <<>>)

\* nav::wait_for_page_load: the error after the loop
page_load_timeout_error ==
    ErrMs("Navigation", "Page load timeout after {} milliseconds", "-", timeout)

\* Browser::wait_for_page_load, up to the loop's entry
wait_for_page_load ==
    /\ pc = "idle"
    /\ \E timeout_ms \in TimeoutArgs :
        LET g == get_context IN
        IF ~g.ok
        THEN Return("wait_for_page_load", <<>>, NoReply, g.error)
        ELSE /\ EnterLoop("wait_for_page_load", "wait_for_page_load", <<>>, NoReply,
                          page_load_timeout(timeout_ms), "-")
             /\ navigating' = FALSE
    /\ UNCHANGED <<browsing_context, session, tabs>>

\* nav::wait_for_page_load: one iteration of the loop
wait_for_page_load_poll ==
    /\ pc = "wait_for_page_load"
    /\ page_load_pending
    /\ \E r \in ScriptReplies(browsing_context) :
        /\ cmds' = Append(cmds, ReadyStateCmd(browsing_context))
        /\ reply' = r
        /\ observed' = (observed \/ r = Success("string", "complete"))
        /\ failures' = (failures \/ r.tag # "Success")
        /\ LET m == page_load_match(r) IN
           IF m.returns
           THEN /\ LeaveLoop(m.result)
                /\ elapsed' = elapsed + rtt
                /\ UNCHANGED sleeps
           ELSE /\ elapsed' = elapsed + rtt + PageLoadPollMs
                /\ sleeps' = sleeps + 1
                /\ UNCHANGED <<pc, result>>
    /\ UNCHANGED <<browsing_context, session, tabs, op, timeout, rtt, selector,
                   navigating, script>>

\* The wait giving up at any moment, deadline or not.
wait_for_page_load_gives_up ==
    /\ pc = "wait_for_page_load"
    /\ LeaveLoop(page_load_timeout_error)
    /\ UNCHANGED <<browsing_context, session, tabs, op, cmds, reply, navigating, script,
                   timeout, elapsed, rtt, sleeps, selector, observed, failures>>

\* The deadline exit clicking once more before it reports the timeout.
wait_for_page_load_timeout_reclicking ==
    /\ pc = "wait_for_page_load"
    /\ ~page_load_pending
    /\ LeaveLoop(page_load_timeout_error)
    /\ cmds' = IF op = "click_and_wait" THEN Append(cmds, cmds[1]) ELSE cmds
    /\ UNCHANGED <<browsing_context, session, tabs, op, reply, navigating, script,
                   timeout, elapsed, rtt, sleeps, selector, observed, failures>>

\* nav::wait_for_page_load: the loop ends on its deadline
wait_for_page_load_timeout ==
    /\ pc = "wait_for_page_load"
    /\ ~page_load_pending
    /\ LeaveLoop(page_load_timeout_error)
    /\ UNCHANGED <<browsing_context, session, tabs, op, cmds, reply, navigating, script,
                   timeout, elapsed, rtt, sleeps, selector, observed, failures>>

\* click_and_wait going on to the wait whatever the click returned.
click_and_wait_ignoring_click ==
    /\ pc = "idle"
    /\ \E sel \in Selectors, timeout_ms \in TimeoutArgs :
        LET g == get_context IN
        IF ~g.ok
        THEN Return("click_and_wait", <<>>, NoReply, g.error)
        ELSE \E r \in ScriptReplies(g.ctx) :
                LET c == input_click_element(g.ctx, sel, r) IN
                /\ EnterLoop("click_and_wait", "wait_for_page_load", c.cmds, r,
                             page_load_timeout(timeout_ms), sel)
                /\ \E started \in BOOLEAN : navigating' = started
    /\ UNCHANGED <<browsing_context, session, tabs>>

\* The remote browser replaces the document the click was made in by the one
\* navigated to; from here on evaluations run in the new document.
navigation_commits ==
    /\ pc = "wait_for_page_load"
    /\ navigating
    /\ navigating' = FALSE
    /\ UNCHANGED <<browsing_context, session, tabs, pc, op, cmds, reply, result,
                   loopvars, script>>

\* Browser::click_and_wait: click_element(selector)?, then wait_for_page_load
\* up to the loop's entry
click_and_wait ==
    /\ pc = "idle"
    /\ \E sel \in Selectors, timeout_ms \in TimeoutArgs :
        LET g == get_context IN
        IF ~g.ok
        THEN Return("click_and_wait", <<>>, NoReply, g.error)
        ELSE \E r \in ScriptReplies(g.ctx) :
                LET c == input_click_element(g.ctx, sel, r) IN
                IF c.result.kind # "Ok"
                THEN Return("click_and_wait", c.cmds, r, c.result)
                ELSE \* the click may have started a navigation
                     /\ EnterLoop("click_and_wait", "wait_for_page_load", c.cmds, r,
                                  page_load_timeout(timeout_ms), sel)
                     /\ \E started \in BOOLEAN : navigating' = started
    /\ UNCHANGED <<browsing_context, session, tabs>>

\* input::wait_and_click_element: timeout_ms.unwrap_or(5000)
click_timeout(timeout_ms) ==
    IF timeout_ms = NoTimeout THEN DefaultClickTimeoutMs ELSE timeout_ms

\* The click loop's condition with the deadline itself still inside the loop.
clickable_pending_inclusive == elapsed <= timeout

\* input::wait_and_click_element: the loop condition
clickable_pending == elapsed < timeout

\* The match going on to the click on any successful evaluation.
clickable_match_any_success(r) ==
    r.tag = "Success"

\* The match going on to the click on any boolean.
clickable_match_any_boolean(r) ==
    r.tag = "Success" /\ r.ty = "boolean"

\* input::wait_and_click_element: the match on the predicate's reply; TRUE when
\* the loop returns click_element(..), FALSE when it falls through to the sleep.
clickable_match(r) ==
    r.tag = "Success" /\ r.ty = "boolean" /\ r.val = "true"

ClickableCmd(context, sel) == EvalCmd(context, "clickable", sel, <<>>)

\* input::wait_and_click_element: the error after the loop
clickable_timeout_error ==
    ErrMs("Action", "Element with selector '{}' did not become clickable within {} milliseconds",
          selector, timeout)

\* Browser::wait_and_click_element, up to the loop's entry
wait_and_click_element ==
    /\ pc = "idle"
    /\ \E sel \in Selectors, timeout_ms \in TimeoutArgs :
        LET g == get_context IN
        IF ~g.ok
        THEN Return("wait_and_click_element", <<>>, NoReply, g.error)
        ELSE /\ EnterLoop("wait_and_click_element", "wait_and_click_element", <<>>, NoReply,
                          click_timeout(timeout_ms), sel)
             /\ navigating' = FALSE
    /\ UNCHANGED <<browsing_context, session, tabs>>

\* The loop going back to polling when the click it made failed.
wait_and_click_element_poll_retrying ==
    /\ pc = "wait_and_click_element"
    /\ clickable_pending
    /\ \E r \in ScriptReplies(browsing_context) :
        IF clickable_match(r)
        THEN \E r2 \in ScriptReplies(browsing_context) :
                LET c == input_click_element(browsing_context, selector, r2) IN
                /\ cmds' = Append(cmds, ClickableCmd(browsing_context, selector)) \o c.cmds
                /\ reply' = r2
                /\ observed' = (observed \/ r = Success("boolean", "true"))
                /\ IF c.result.kind = "Ok"
                   THEN /\ LeaveLoop(c.result)
                        /\ elapsed' = elapsed + rtt + rtt
                        /\ UNCHANGED <<sleeps, failures>>
                   ELSE /\ elapsed' = elapsed + rtt + rtt + ClickPollMs
                        /\ sleeps' = sleeps + 1
                        /\ UNCHANGED <<pc, result, failures>>
        ELSE /\ cmds' = Append(cmds, ClickableCmd(browsing_context, selector))
             /\ reply' = r
             /\ elapsed' = elapsed + rtt + ClickPollMs
             /\ sleeps' = sleeps + 1
             /\ failures' = (failures \/ r.tag # "Success" \/ r.ty # "boolean")
             /\ observed' = (observed \/ r = Success("boolean", "true"))
             /\ UNCHANGED <<pc, result>>
    /\ UNCHANGED <<browsing_context, session, tabs, op, timeout, rtt, selector,
                   navigating, script>>

\* input::wait_and_click_element: one iteration of the loop
wait_and_click_element_poll ==
    /\ pc = "wait_and_click_element"
    /\ clickable_pending
    /\ \E r \in ScriptReplies(browsing_context) :
        IF clickable_match(r)
        THEN \E r2 \in ScriptReplies(browsing_context) :
                LET c == input_click_element(browsing_context, selector, r2) IN
                /\ cmds' = Append(cmds, ClickableCmd(browsing_context, selector)) \o c.cmds
                /\ reply' = r2
                /\ LeaveLoop(c.result)
                /\ elapsed' = elapsed + rtt + rtt
                /\ observed' = (observed \/ r = Success("boolean", "true"))
                /\ UNCHANGED <<sleeps, failures>>
        ELSE /\ cmds' = Append(cmds, ClickableCmd(browsing_context, selector))
             /\ reply' = r
             /\ elapsed' = elapsed + rtt + ClickPollMs
             /\ sleeps' = sleeps + 1
             /\ failures' = (failures \/ r.tag # "Success" \/ r.ty # "boolean")
             /\ observed' = (observed \/ r = Success("boolean", "true"))
             /\ UNCHANGED <<pc, result>>
    /\ UNCHANGED <<browsing_context, session, tabs, op, timeout, rtt, selector,
                   navigating, script>>

\* input::wait_and_click_element: the loop ends on its deadline
wait_and_click_element_timeout ==
    /\ pc = "wait_and_click_element"
    /\ ~clickable_pending
    /\ LeaveLoop(clickable_timeout_error)
    /\ UNCHANGED <<browsing_context, session, tabs, op, cmds, reply, navigating, script,
                   timeout, elapsed, rtt, sleeps, selector, observed, failures>>

Next ==
    \/ caller_continues
    \/ open
    \/ close
    \/ load
    \/ go_back
    \/ go_forward
    \/ reload
    \/ take_screenshot
    \/ set_local_storage_value
    \/ get_local_storage_value
    \/ assert_element_present
    \/ click_element
    \/ extract_inner_html
    \/ extract_inner_text
    \/ extract_attribute
    \/ wait_for_page_load
    \/ wait_for_page_load_poll
    \/ wait_for_page_load_timeout
    \/ click_and_wait
    \/ navigation_commits
    \/ wait_and_click_element
    \/ wait_and_click_element_poll
    \/ wait_and_click_element_timeout

Spec == Init /\ [][Next]_vars

\* Time advances and every collaborator round-trip returns: a loop that can
\* make its next iteration, or leave on its deadline, does so. Nothing is
\* asked of the caller or of the remote browser's navigation.
LoopStep ==
    \/ wait_for_page_load_poll
    \/ wait_for_page_load_timeout
    \/ wait_and_click_element_poll
    \/ wait_and_click_element_timeout

\* A browser that open() has succeeded on, with a tree of one context.
\* (Polls on a context the collaborator rejects get the transport failure
\* every time, which a poll on a live context may get as well.)
InitLive ==
    /\ tabs = <<1>>
    /\ browsing_context = adopted_context(tabs)
    /\ session = "started"
    /\ pc = "idle"
    /\ op = "-"
    /\ cmds = <<>>
    /\ reply = NoReply
    /\ result = NoResult
    /\ timeout = 0
    /\ elapsed = 0
    /\ rtt = 0
    /\ sleeps = 0
    /\ selector = "-"
    /\ observed = FALSE
    /\ failures = FALSE
    /\ navigating = FALSE
    /\ script = Unbuilt(<<>>, <<>>)

\* The caller's repertoire cut down to the calls that poll.
NextLive ==
    \/ caller_continues
    \/ wait_for_page_load
    \/ click_and_wait
    \/ navigation_commits
    \/ wait_and_click_element
    \/ LoopStep

SpecLive == InitLive /\ [][NextLive]_vars /\ WF_vars(LoopStep)

\* --------------------------------------------------------- script builders

\* str::replace("\"", "\\\""): every double quote becomes a backslash and a
\* double quote; every other character, the backslash included, is copied.
RECURSIVE escape_quotes(_)
escape_quotes(text) ==
    IF text = <<>>
    THEN <<>>
    ELSE (IF Head(text) = DQ THEN <<BS, DQ>> ELSE <<Head(text)>>)
         \o escape_quotes(Tail(text))

\* A string literal the builder wrote: the place of its opening quote, the
\* place of the closing quote the template supplies, and the text it is to
\* denote.
Literal(start, escaped, input) ==
    [open |-> start, close |-> start + Len(escaped) + 1, input |-> input]

\* input::click_element: format!(.., escaped_selector). The template's own
\* text is kept as whole pieces; the interpolated text is kept by character.
click_element_script(sel) ==
    LET escaped_selector == escape_quotes(sel) IN
    [text |-> <<"(() => { const element = document.querySelector(", DQ>>
              \o escaped_selector
              \o <<DQ, "); if (element) { element.scrollIntoView(); element.click(); return true; } else { return false; } })()">>,
     literals |-> <<Literal(2, escaped_selector, sel)>>]

\* extract::extract_attribute: format!(.., escaped_selector, escaped_attribute)
extract_attribute_script(sel, attribute) ==
    LET escaped_selector == escape_quotes(sel)
        escaped_attribute == escape_quotes(attribute)
        first == Literal(2, escaped_selector, sel)
    IN
    [text |-> <<"(() => { const element = document.querySelector(", DQ>>
              \o escaped_selector
              \o <<DQ, "); if (element) { return element.getAttribute(", DQ>>
              \o escaped_attribute
              \o <<DQ, "); } else { return undefined; } })()">>,
     literals |-> <<first, Literal(first.close + 2, escaped_attribute, attribute)>>]

\* The script engine reading a double-quoted string literal of text from
\* place i on, value being the characters read so far: a double quote closes
\* the literal, a backslash takes the character after it into the value, any
\* other character stands for itself; the text may end before the literal.
RECURSIVE ScanStringLiteral(_, _, _)
ScanStringLiteral(text, i, value) ==
    IF i > Len(text)
    THEN [closed |-> FALSE, end |-> 0, value |-> value]
    ELSE IF text[i] = DQ
    THEN [closed |-> TRUE, end |-> i, value |-> value]
    ELSE IF text[i] = BS
    THEN IF i + 1 > Len(text)
         THEN [closed |-> FALSE, end |-> 0, value |-> value]
         ELSE ScanStringLiteral(text, i + 2, Append(value, text[i + 1]))
    ELSE ScanStringLiteral(text, i + 1, Append(value, text[i]))

\* The callers' selectors and attribute names are arbitrary strings.
InitScript ==
    /\ Constructed
    /\ \E sel \in Texts, attribute \in Texts : script = Unbuilt(sel, attribute)

\* input::click_element builds its script from the selector.
format_click_element_script ==
    /\ script.builder = "-"
    /\ LET built == click_element_script(script.selector) IN
       script' = [script EXCEPT !.builder = "click_element",
                                !.text = built.text,
                                !.literals = built.literals]
    /\ UNCHANGED <<callvars, loopvars>>

\* extract::extract_attribute builds its script from the selector and the
\* attribute name.
format_extract_attribute_script ==
    /\ script.builder = "-"
    /\ LET built == extract_attribute_script(script.selector, script.attribute) IN
       script' = [script EXCEPT !.builder = "extract_attribute",
                                !.text = built.text,
                                !.literals = built.literals]
    /\ UNCHANGED <<callvars, loopvars>>

NextScript ==
    \/ format_click_element_script
    \/ format_extract_attribute_script

SpecScript == InitScript /\ [][NextScript]_vars

\* ------------------------------------------------------------------ claims

\* The public operations that resolve the context first.
ContextOps ==
    {"load", "go_back", "go_forward", "reload", "wait_for_page_load", "take_screenshot",
     "set_local_storage_value", "get_local_storage_value", "assert_element_present",
     "click_element", "wait_and_click_element", "click_and_wait",
     "extract_inner_html", "extract_inner_text", "extract_attribute"}

NoContextError == Err("Navigation", "No browsing context available")

\* Readiness evaluations the current call has issued.
ReadyPolls == Cardinality({i \in 1..Len(cmds) : cmds[i].script = "document.readyState"})

\* Indices of the click script among the current call's commands.
Clicks == {i \in 1..Len(cmds) : cmds[i].script = "click"}

\* The current call has been through nav::wait_for_page_load.
InPageLoad ==
    /\ browsing_context # None
    /\ \/ op = "wait_for_page_load"
       \/ op = "click_and_wait" /\ (pc = "wait_for_page_load" \/ result.err # "Action")

C2_OnlyOpenBeforeContext ==
    (browsing_context = None /\ cmds # <<>>) => op = "open"

\* C2, amended: while the cached context is absent no operation other than
\* open and close issues a command; close issues its close-session command
\* whether or not a context exists.
C2_OnlyOpenAndCloseBeforeContext ==
    /\ (browsing_context = None /\ cmds # <<>>) => op \in {"open", "close"}
    /\ op = "close" => cmds = <<CloseCmd>>

C2_Witness ==
    /\ browsing_context = None
    /\ op = "close"
    /\ cmds = <<CloseCmd>>
    /\ result.kind = "Ok"

\* C3: open returns a SessionCreation error, as a value, when the session
\* start fails, when the context-tree fetch fails, and when the fetch returns
\* an empty list of contexts.
C3_OpenFailuresAreErrors ==
    (/\ op = "open"
     /\ \/ reply = TransportErr
        \/ cmds = <<StartCmd, GetTreeCmd>> /\ reply = CmdOk /\ tabs = <<>>)
    => /\ pc = "returned"
       /\ result.kind = "Err"
       /\ result.err = "SessionCreation"

\* C4: a successful open leaves the first entry of the returned context tree
\* in the cache, and only a successful open ever changes the cached context.
C4_ContextSetOnlyByOpen ==
    [][/\ (op' = "open" /\ result'.kind = "Ok") => browsing_context' = Head(tabs')
       /\ browsing_context' # browsing_context => (op' = "open" /\ result'.kind = "Ok")]_vars

C4_Witness ==
    /\ op = "open"
    /\ result.kind = "Ok"
    /\ Len(tabs) = 2
    /\ browsing_context = tabs[1]

\* C5: once close has succeeded, no later open starts the session again and
\* every later call returns an error.
C5_ClosedIsFinal ==
    [][session = "closed" =>
        /\ session' = "closed"
        /\ pc' = "returned" => result'.kind = "Err"]_vars

\* C6: close issues exactly one close-session command, returns a
\* SessionClosing error when that command fails and Ok when it succeeds, and
\* leaves the cached context as it was in both cases.
C6_CloseFrame ==
    [][op' = "close" =>
        /\ cmds' = <<CloseCmd>>
        /\ reply' = TransportErr => (result'.kind = "Err" /\ result'.err = "SessionClosing")
        /\ reply' # TransportErr => (result' = Ok(Unit) /\ session' = "closed")
        /\ browsing_context' = browsing_context]_vars

C6_Witness ==
    /\ op = "close"
    /\ result = Ok(Unit)
    /\ session = "closed"
    /\ browsing_context # None

\* C7: wait_for_page_load returns Ok on the first poll that yields "complete",
\* with no sleep and no evaluation after it, and returns Ok on no other reply.
C7_CompleteReturnsAtOnce ==
    InPageLoad =>
        /\ observed => /\ pc = "returned"
                       /\ result = Ok(Unit)
                       /\ reply = Success("string", "complete")
                       /\ sleeps = ReadyPolls - 1
        /\ result.kind = "Ok" => observed

C7_Witness ==
    /\ op = "wait_for_page_load"
    /\ pc = "returned"
    /\ result = Ok(Unit)
    /\ ReadyPolls = 3
    /\ timeout = DefaultPageLoadTimeoutMs

\* C8 as stated: when no poll reports "complete" the call returns the
\* Navigation timeout error at an elapsed time t, timeout <= t < timeout + 200
\* with instantaneous round-trips, and the error names t.
C8_TimeoutNamesElapsed ==
    (InPageLoad /\ pc = "returned" /\ ~observed) =>
        /\ result.kind = "Err"
        /\ result.err = "Navigation"
        /\ rtt = 0 => /\ timeout <= elapsed
                      /\ elapsed < timeout + PageLoadPollMs
                      /\ result.ms = elapsed

\* C8, amended: when no poll reports "complete" the call returns the
\* Navigation timeout error at an elapsed time t, timeout <= t < timeout + 200
\* with instantaneous round-trips, and the error names the configured timeout.
C8_TimeoutNamesTimeout ==
    (InPageLoad /\ pc = "returned" /\ ~observed) =>
        /\ result = ErrMs("Navigation", "Page load timeout after {} milliseconds", "-", timeout)
        /\ rtt = 0 => /\ timeout <= elapsed
                      /\ elapsed < timeout + PageLoadPollMs

C8_Witness ==
    /\ op = "wait_for_page_load"
    /\ pc = "returned"
    /\ ~observed
    /\ rtt = 0
    /\ timeout > 0
    /\ elapsed > timeout
    /\ result.ms = timeout

\* C9: a failed evaluation does not end the wait: it is followed by a sleep
\* and the next poll, and a call that saw one returns either Ok, on a later
\* "complete", or the timeout error, once the deadline has passed.
C9_FailedPollKeepsWaiting ==
    (InPageLoad /\ failures) =>
        /\ sleeps = ReadyPolls - (IF observed THEN 1 ELSE 0)
        /\ pc = "returned" =>
            \/ observed /\ result = Ok(Unit)
            \/ /\ result.kind = "Err"
               /\ result.msg = "Page load timeout after {} milliseconds"
               /\ elapsed >= timeout

C9_Witness ==
    /\ op = "wait_for_page_load"
    /\ failures
    /\ observed
    /\ pc = "returned"
    /\ result = Ok(Unit)
    /\ elapsed < timeout

\* C10: wait_and_click_element issues the click script only after a poll of
\* the same call returned boolean true; a call that never saw true issues no
\* click and ends with the timeout error.
C10_ClickOnlyAfterTrue ==
    (op = "wait_and_click_element" /\ browsing_context # None) =>
        /\ \A i \in Clicks : /\ observed
                             /\ i > 1
                             /\ cmds[i - 1] = ClickableCmd(browsing_context, selector)
        /\ (pc = "returned" /\ ~observed) =>
            /\ Clicks = {}
            /\ result.kind = "Err"
            /\ result.err = "Action"
            /\ result.ms = timeout
            /\ elapsed >= timeout

C10_Witness ==
    /\ op = "wait_and_click_element"
    /\ observed
    /\ Clicks = {3}
    /\ result = Ok(Unit)

\* Clickability evaluations the current call has issued.
ClickablePolls == Cardinality({i \in 1..Len(cmds) : cmds[i].script = "clickable"})

C12_ClickFailureSkipsWait ==
    [][op' = "click_and_wait" =>
        IF pc = "idle"
        THEN /\ ReadyPolls' = 0
             /\ browsing_context = None =>
                    (pc' = "returned" /\ cmds' = <<>> /\ result' = NoContextError)
             /\ browsing_context # None =>
                    /\ Clicks' = {1}
                    /\ Len(cmds') = 1
                    /\ IF reply' = Success("boolean", "true")
                       THEN pc' = "wait_for_page_load" /\ result' = NoResult
                       ELSE /\ pc' = "returned"
                            /\ result' = input_click_element(browsing_context,
                                                             cmds'[1].sel, reply').result
                            /\ result'.kind = "Err"
                            /\ result'.err = "Action"
        ELSE /\ Clicks' = {1}
             /\ ReadyPolls' = Len(cmds') - 1
             /\ ReadyPolls' > 0 => result'.err # "Action"]_vars

C12_Witness ==
    /\ op = "click_and_wait"
    /\ pc = "returned"
    /\ browsing_context # None
    /\ reply = Success("boolean", "false")
    /\ result.err = "Action"
    /\ Clicks = {1}
    /\ ReadyPolls = 0

\* The element-not-found error of the extraction operations.
IsNotFound(res) ==
    /\ res.kind = "Err"
    /\ res.err = "Element"
    /\ res.msg = "Element not found with selector"

\* C13: extract_attribute returns Ok(None) exactly on a decoded null, the
\* Element not-found error naming the selector exactly on a decoded undefined,
\* and Some(value) exactly on a decoded string; no reply yields both None and
\* not-found.
C13_AbsencesKeptApart ==
    (op = "extract_attribute" /\ browsing_context # None) =>
        /\ result = Ok(NoneVal) <=> reply = Success("null", "-")
        /\ IsNotFound(result) <=> reply = Success("undefined", "-")
        /\ IsNotFound(result) => result.sel = cmds[1].sel
        /\ \A s \in ScriptStrings :
                result = Ok(SomeVal(s)) <=> reply = Success("string", s)
        /\ (reply.tag = "Success" /\ reply.ty = "string") => result = Ok(SomeVal(reply.val))

C13_Witness ==
    /\ op = "extract_attribute"
    /\ reply = Success("null", "-")
    /\ result = Ok(NoneVal)
    /\ cmds[1].args = <<"href">>

\* C14: extract_inner_html and extract_inner_text return the decoded string
\* unchanged, the Element not-found error on null, the Element
\* unexpected-result error on every other success value, and an Element error
\* on exception, empty result and transport failure; the two operations map
\* every reply alike.
C14_InnerExtractionMapping ==
    (op \in {"extract_inner_html", "extract_inner_text"} /\ browsing_context # None) =>
        /\ cmds[1].script = (IF op = "extract_inner_html" THEN "innerHTML" ELSE "innerText")
        /\ IF reply.tag = "Success" /\ reply.ty = "string"
           THEN result = Ok(StrVal(reply.val))
           ELSE /\ result.kind = "Err"
                /\ result.err = "Element"
        /\ IsNotFound(result) <=> reply = Success("null", "-")
        /\ result.msg = "Unexpected result type from extraction"
             <=> (reply.tag = "Success" /\ reply.ty \notin {"string", "null"})

C14_Witness ==
    /\ op = "extract_inner_text"
    /\ reply = Success("undefined", "-")
    /\ result = Err("Element", "Unexpected result type from extraction")

\* C15: click_element returns Ok exactly on a success carrying boolean true;
\* boolean false yields the Action element-not-found error naming the
\* selector, a non-boolean success value the Action unexpected-result error,
\* whose message differs, and exception, empty result and transport failure
\* an Action error each.
C15_ClickOnlyOnTrue ==
    (op = "click_element" /\ browsing_context # None) =>
        /\ cmds = <<EvalCmd(browsing_context, "click", cmds[1].sel, <<>>)>>
        /\ result = Ok(Unit) <=> reply = Success("boolean", "true")
        /\ result.kind = "Ok" => result = Ok(Unit)
        /\ result.kind # "Ok" => (result.kind = "Err" /\ result.err = "Action")
        /\ reply = Success("boolean", "false") <=>
                result = ErrSel("Action", "Element not found with selector", cmds[1].sel)
        /\ (reply.tag = "Success" /\ reply.ty # "boolean") <=>
                result = Err("Action", "Unexpected result type from click operation")

C15_Witness ==
    /\ op = "click_element"
    /\ reply = Success("string", "complete")
    /\ result = Err("Action", "Unexpected result type from click operation")

\* What the script engine makes of the k-th literal of the built script.
Scanned(k) == ScanStringLiteral(script.text, script.literals[k].open + 1, <<>>)

\* C16: in every built script, for every selector and attribute name made of
\* ordinary characters, double quotes and backslashes, each string literal is
\* closed by the template's own closing quote and by no quote before it, and
\* denotes the text it was built from.
C16_LiteralEndsAtOwnQuote ==
    script.builder # "-" =>
        \A k \in 1..Len(script.literals) :
            /\ Scanned(k).closed
            /\ Scanned(k).end = script.literals[k].close
            /\ Scanned(k).value = script.literals[k].input

\* C17: whenever the script of an operation ends in an exception or in an
\* empty result, the call returns an error, never a success value.
C17_ScriptFailuresAreErrors ==
    (pc = "returned" /\ reply.tag \in {"Exception", "Empty"}) =>
        /\ result.kind = "Err"
        /\ result.val = <<>>

\* C18: set_local_storage_value returns a LocalStorage error whenever the set
\* script fails, at the transport or by raising an exception, and returns Ok
\* only when the script ran to its end.
C18_SetFailureIsStorageError ==
    (op = "set_local_storage_value" /\ browsing_context # None) =>
        /\ reply.tag \in {"TransportErr", "Exception"} =>
                (result.kind = "Err" /\ result.err = "LocalStorage")
        /\ result = Ok(Unit) => reply.tag = "Success"

\* C19: get_local_storage_value returns Some(s) exactly when the function
\* call succeeded with the string s, the empty string included, None for
\* every other success value, null included, and a LocalStorage error when
\* the function call fails at the transport.
C19_GetDecodesStringOnly ==
    (op = "get_local_storage_value" /\ browsing_context # None) =>
        /\ cmds = <<CallCmd(browsing_context, "(key) => localStorage.getItem(key)",
                            cmds[1].args)>>
        /\ \A s \in ScriptStrings :
                result = Ok(SomeVal(s)) <=> reply = Success("string", s)
        /\ result.kind = "Ok" =>
                (result = Ok(NoneVal) \/ \E s \in ScriptStrings : result = Ok(SomeVal(s)))
        /\ (reply.tag = "Success" /\ reply.ty # "string") => result = Ok(NoneVal)
        /\ reply = TransportErr => (result.kind = "Err" /\ result.err = "LocalStorage")

C19_Witness ==
    /\ op = "get_local_storage_value"
    /\ reply = Success("string", "")
    /\ result = Ok(SomeVal(""))
    /\ cmds[1].args = <<"string", "k">>

\* C20: assert_element_present returns the boolean of a boolean success
\* unchanged, false for every success value that is no boolean, and an
\* Assertion error for a script exception.
C20_AssertDecodesBoolean ==
    (op = "assert_element_present" /\ browsing_context # None) =>
        /\ (reply.tag = "Success" /\ reply.ty = "boolean") =>
                result = Ok(BoolVal(reply.val))
        /\ (reply.tag = "Success" /\ reply.ty # "boolean") =>
                result = Ok(BoolVal("false"))
        /\ result = Ok(BoolVal("true")) <=> reply = Success("boolean", "true")
        /\ reply.tag = "Exception" =>
                (result.kind = "Err" /\ result.err = "Assertion")

C20_Witness ==
    /\ op = "assert_element_present"
    /\ reply = Success("null", "-")
    /\ result = Ok(BoolVal("false"))

\* C21: set_local_storage_value and get_local_storage_value send one function
\* declaration each, the same for every key and value; the key, and for set
\* the value after it, travel in the argument list as string protocol values.
C21_StorageScriptIsConstant ==
    browsing_context # None =>
        /\ op = "set_local_storage_value" =>
                \E key \in Keys, value \in Values :
                    cmds = <<CallCmd(browsing_context,
                                     "(key, value) => localStorage.setItem(key, value)",
                                     <<"string", key, "string", value>>)>>
        /\ op = "get_local_storage_value" =>
                \E key \in Keys :
                    cmds = <<CallCmd(browsing_context,
                                     "(key) => localStorage.getItem(key)",
                                     <<"string", key>>)>>

C21_Witness ==
    /\ op = "set_local_storage_value"
    /\ browsing_context # None
    /\ cmds[1].script = "(key, value) => localStorage.setItem(key, value)"
    /\ cmds[1].args = <<"string", "j", "string", "">>

\* C22: click_and_wait returns Ok only when the navigation its click started
\* has replaced the old document: a "complete" read from the document the
\* click was made in does not end the wait.
C22_OkOnlyAfterNavigation ==
    (op = "click_and_wait" /\ pc = "returned" /\ result.kind = "Ok") => ~navigating

\* The cached context is one the collaborator rejects every command for.
Invalid == browsing_context # None /\ ~Live(browsing_context)

\* The error kind of the component an operation belongs to.
ComponentKind(name) ==
    CASE name \in {"load", "go_back", "go_forward", "reload", "wait_for_page_load"}
            -> "Navigation"
      [] name \in {"click_element", "wait_and_click_element", "click_and_wait"} -> "Action"
      [] name \in {"extract_inner_html", "extract_inner_text", "extract_attribute"}
            -> "Element"
      [] name \in {"set_local_storage_value", "get_local_storage_value"} -> "LocalStorage"
      [] name = "assert_element_present" -> "Assertion"
      [] name = "take_screenshot" -> "Screenshot"

\* C23 as stated: with a cached context the collaborator rejects, every
\* public operation returns a Navigation error.
C23_InvalidContextIsNavigation ==
    (Invalid /\ op \in ContextOps /\ pc = "returned") =>
        /\ result.kind = "Err"
        /\ result.err = "Navigation"

\* C23, amended: with a cached context the collaborator rejects, no public
\* operation panics and every one returns an error of its own component's
\* kind: Navigation, Action, Element, LocalStorage, Assertion or Screenshot.
C23_InvalidContextIsComponentError ==
    (Invalid /\ op \in ContextOps) =>
        /\ pc # "panicked"
        /\ pc = "returned" =>
            /\ result.kind = "Err"
            /\ result.err = ComponentKind(op)

C23_Witness ==
    /\ Invalid
    /\ session = "started"
    /\ op = "take_screenshot"
    /\ pc = "returned"
    /\ result = Err("Screenshot", "Taking the screenshot failed")

\* The value variants the script of an operation is written to return.
Expected(name) ==
    CASE name \in {"click_element", "assert_element_present"} -> {"boolean"}
      [] name \in {"extract_inner_html", "extract_inner_text"} -> {"string", "null"}
      [] name = "extract_attribute" -> {"string", "null", "undefined"}
      [] name = "get_local_storage_value" -> {"string", "null"}

\* The operations that decode the value their script returned.
DecodingOps ==
    {"click_element", "assert_element_present", "extract_inner_html",
     "extract_inner_text", "extract_attribute", "get_local_storage_value"}

\* The call at hand got a success value of a variant its script never returns.
UnexpectedVariant ==
    /\ op \in DecodingOps
    /\ browsing_context # None
    /\ pc = "returned"
    /\ reply.tag = "Success"
    /\ reply.ty \notin Expected(op)

\* C24 as stated: in every controller a success value of an unexpected
\* variant is returned as an error.
C24_UnexpectedVariantIsError ==
    UnexpectedVariant => result.kind = "Err"

\* C24, amended: a success value of an unexpected variant is returned as an
\* error by click_element and by the extract operations, as false by
\* assert_element_present and as None by get_local_storage_value.
C24_UnexpectedVariantByController ==
    UnexpectedVariant =>
        CASE op = "assert_element_present" -> result = Ok(BoolVal("false"))
          [] op = "get_local_storage_value" -> result = Ok(NoneVal)
          [] OTHER -> /\ result.kind = "Err"
                      /\ result.err = ComponentKind(op)
                      /\ result.msg \in {"Unexpected result type from click operation",
                                          "Unexpected result type from extraction",
                                          "Unexpected result type from attribute extraction"}

C24_Witness ==
    /\ UnexpectedVariant
    /\ op = "extract_attribute"
    /\ reply = Success("boolean", "true")
    /\ result = Err("Element", "Unexpected result type from attribute extraction")

\* The public operations without a polling loop.
SingleCommandOps ==
    ContextOps \ {"wait_for_page_load", "wait_and_click_element", "click_and_wait"}

\* C25: outside the polling loops every operation issues exactly one command
\* per call and has returned when the reply is in; a failed command is not
\* issued again and the call returns the error kind of its own component.
C25_NoRetryOutsideLoops ==
    (op \in SingleCommandOps /\ browsing_context # None) =>
        /\ pc = "returned"
        /\ Len(cmds) = 1
        /\ reply = TransportErr =>
            /\ result.kind = "Err"
            /\ result.err = ComponentKind(op)

C25_Witness ==
    /\ op = "go_forward"
    /\ Live(browsing_context)
    /\ reply = TransportErr
    /\ Len(cmds) = 1
    /\ result = Err("Navigation", "Navigating the history failed")

\* C26: a wait_for_page_load call on a loaded page, one no poll of which read
\* anything but "complete", returns Ok after a single evaluation and without
\* a sleep, whatever its timeout, 0 included.
C26_LoadedPageReturnsOk ==
    (/\ op = "wait_for_page_load"
     /\ pc = "returned"
     /\ Live(browsing_context)
     /\ sleeps = 0)
    => /\ result = Ok(Unit)
       /\ ReadyPolls = 1

\* C27: go_back issues one history traversal with delta -1 and go_forward
\* one with delta +1, load one navigation and reload one reload with
\* readiness "complete", each naming the cached context; each returns Ok when
\* its command succeeds and a Navigation error when it fails.
C27_NavigationCommands ==
    (op \in {"go_back", "go_forward", "load", "reload"} /\ browsing_context # None) =>
        /\ Len(cmds) = 1
        /\ cmds[1].context = browsing_context
        /\ op = "go_back" => (cmds[1].verb = "traverse_history" /\ cmds[1].delta = -1)
        /\ op = "go_forward" => (cmds[1].verb = "traverse_history" /\ cmds[1].delta = 1)
        /\ op = "load" => /\ cmds[1].verb = "navigate"
                          /\ cmds[1].readiness = "complete"
                          /\ cmds[1].args \in {<<url>> : url \in Urls}
        /\ op = "reload" => (cmds[1].verb = "reload" /\ cmds[1].readiness = "complete")
        /\ IF reply = TransportErr
           THEN result.kind = "Err" /\ result.err = "Navigation"
           ELSE result = Ok(Unit)

C27_Witness ==
    /\ op = "go_back"
    /\ reply = CmdOk
    /\ result = Ok(Unit)
    /\ cmds[1].delta = -1
    /\ cmds[1].context = browsing_context

\* The current call is one of the two polling loops, context in hand.
InLoopCall ==
    InPageLoad \/ (op = "wait_and_click_element" /\ browsing_context # None)

\* C28: every call that entered one of the two polling loops eventually
\* returns, and a call that returned before its deadline had seen its
\* predicate true.
C28_LoopsReturn ==
    /\ [](( InLoopCall /\ pc = "returned" /\ elapsed < timeout) => observed)
    /\ (pc \in {"wait_for_page_load", "wait_and_click_element"}) ~> (pc = "returned")

C28_Witness ==
    /\ op = "click_and_wait"
    /\ pc = "returned"
    /\ ~observed
    /\ failures
    /\ ReadyPolls >= 2
    /\ elapsed >= timeout
    /\ result.err = "Navigation"

C30_ClickEndsTheWait ==
    (op = "wait_and_click_element" /\ Clicks # {}) =>
        /\ Clicks = {Len(cmds)}
        /\ pc = "returned"
        /\ sleeps = ClickablePolls - 1
        /\ IF reply = Success("boolean", "true")
           THEN result = Ok(Unit)
           ELSE /\ result.kind = "Err"
                /\ result.err = "Action"
                /\ result # clickable_timeout_error

C30_Witness ==
    /\ op = "wait_and_click_element"
    /\ Clicks # {}
    /\ ClickablePolls = 2
    /\ reply = Success("boolean", "false")
    /\ result = ErrSel("Action", "Element not found with selector", selector)
    /\ elapsed < timeout

\* Smallest number of intervals of length step that cover span.
IntervalsCovering(span, step) == (span + step - 1) \div step

FetchFailed == Err("SessionCreation", "The browsingContext.getTree command failed")

\* C32: an open that fails at the context-tree fetch has issued the start and
\* the fetch and no close-session command, leaves the cached context as it
\* was and the session started; the cached context goes from absent to
\* present only in an open whose start and fetch both succeeded; and while
\* the session is started with no cached context, every context-bearing
\* operation fails with the missing-context error without issuing a command.
C32_FailedFetchLeavesSessionStarted ==
    /\ [][/\ (pc = "idle" /\ op' = "open" /\ result' = FetchFailed)
              => /\ cmds' = <<StartCmd, GetTreeCmd>>
                 /\ CloseCmd \notin Range(cmds')
                 /\ browsing_context' = browsing_context
                 /\ session' = "started"
          /\ (browsing_context = None /\ browsing_context' # None)
              => /\ pc = "idle" /\ op' = "open"
                 /\ cmds' = <<StartCmd, GetTreeCmd>>
                 /\ reply' = CmdOk
                 /\ result' = Ok(Unit)
                 /\ session' = "started"]_vars
    /\ []((session = "started" /\ browsing_context = None /\ op \in ContextOps)
            => (pc = "returned" /\ result = NoContextError /\ cmds = <<>>))

C32_Witness ==
    /\ op = "open"
    /\ pc = "returned"
    /\ result = FetchFailed
    /\ session = "started"
    /\ browsing_context = None
    /\ tabs # <<>>

\* C33: a click_and_wait call enters the page-load wait only with the click
\* script issued as its one command and answered boolean true; during the
\* wait that first command stays as it is; and when the call returns the
\* page-load timeout error its commands are that one click followed by
\* readiness evaluations only.
C33_TimeoutAfterTheClick ==
    /\ [][/\ (pc = "idle" /\ op' = "click_and_wait" /\ pc' = "wait_for_page_load")
              => /\ Len(cmds') = 1
                 /\ Clicks' = {1}
                 /\ cmds'[1].context = browsing_context
                 /\ reply' = Success("boolean", "true")
          /\ (pc = "wait_for_page_load" /\ op = "click_and_wait")
              => /\ op' = op
                 /\ Len(cmds') >= Len(cmds)
                 /\ cmds'[1] = cmds[1]]_vars
    /\ []((/\ op = "click_and_wait"
            /\ pc = "returned"
            /\ browsing_context # None
            /\ result = page_load_timeout_error)
           => /\ Clicks = {1}
              /\ \A i \in 2..Len(cmds) : cmds[i] = ReadyStateCmd(browsing_context))

C33_Witness ==
    /\ op = "click_and_wait"
    /\ pc = "returned"
    /\ browsing_context # None
    /\ result = page_load_timeout_error
    /\ timeout > 0
    /\ Clicks = {1}
    /\ ReadyPolls = Len(cmds) - 1
    /\ ReadyPolls >= 2

====
